---------------------------- MODULE Spec2Model ----------------------------
(***************************************************************************)
(* A model of scripts/tokencount.py: a one-shot command line pipeline that *)
(* collects candidate paths (git ls-files or os.walk), filters them in     *)
(* iter_filestats, sums the sizes, groups by extension, picks the largest  *)
(* files and prints a report.                                              *)
(*                                                                         *)
(* Text is modelled as a sequence of one-character strings, a path as the  *)
(* sequence of its segments (Path.parts).  The file system is a fixed      *)
(* tree of ten files, one for each way a file can behave in the filter;    *)
(* the candidate list, the command line and the outcome of git vary.       *)
(* argv is fixed when the process starts; the model binds a field of args  *)
(* in the step that first reads it, which gives the same runs.             *)
(***************************************************************************)
EXTENDS Integers, Sequences, FiniteSets, TLC

VARIABLES pc, root_kind, args, git_result, paths, exts, stats, events,
          total_bytes, total_files, t_low, t_high, by_ext, topn, out,
          exit_code, est_in, est_out

vars == <<pc, root_kind, args, git_result, paths, exts, stats, events,
          total_bytes, total_files, t_low, t_high, by_ext, topn, out,
          exit_code, est_in, est_out>>

(***************************************************************************)
(* Bounds.                                                                 *)
(***************************************************************************)
\* The longest list of paths `git ls-files` prints in the model.
MaxPaths == 2
\* estimate_tokens is tried on k, 2^53 + k and 3 * 2^52 + k for k in 0..MaxOffset.
MaxOffset == 24

(***************************************************************************)
(* Text.                                                                   *)
(***************************************************************************)
UpperCase == <<"A","B","C","D","E","F","G","H","I","J","K","L","M",
               "N","O","P","Q","R","S","T","U","V","W","X","Y","Z">>
LowerCase == <<"a","b","c","d","e","f","g","h","i","j","k","l","m",
               "n","o","p","q","r","s","t","u","v","w","x","y","z">>

\* str.lower() on one character.
LowerChar(c) ==
    IF \E i \in 1..Len(UpperCase) : UpperCase[i] = c
    THEN LowerCase[CHOOSE i \in 1..Len(UpperCase) : UpperCase[i] = c]
    ELSE c

\* str.lower()
Lower(s) == [i \in 1..Len(s) |-> LowerChar(s[i])]

\* s.startswith(".")
StartsWithDot(s) == Len(s) > 0 /\ s[1] = "."

\* `pat in s` on strings: pat occurs in s as a contiguous run.
Contains(s, pat) ==
    \E i \in 0..(Len(s) - Len(pat)) :
        \A k \in 1..Len(pat) : s[i + k] = pat[k]

\* s.rfind("."), 0-based, -1 when there is none.
RFindDot(s) ==
    IF \E i \in 1..Len(s) : s[i] = "."
    THEN (CHOOSE i \in 1..Len(s) :
             s[i] = "." /\ \A j \in (i+1)..Len(s) : s[j] # ".") - 1
    ELSE -1

\* PurePath.suffix: name[i:] for i = name.rfind(".") when 0 < i < len(name) - 1.
Suffix(name) ==
    LET i == RFindDot(name)
    IN  IF 0 < i /\ i < Len(name) - 1
        THEN SubSeq(name, i + 1, Len(name))
        ELSE <<>>

RECURSIVE JoinPosix(_)
\* PurePath.as_posix() of a relative path: the segments joined by "/".
JoinPosix(parts) ==
    IF Len(parts) = 0 THEN <<>>
    ELSE IF Len(parts) = 1 THEN parts[1]
    ELSE parts[1] \o <<"/">> \o JoinPosix(Tail(parts))

(***************************************************************************)
(* fnmatch.fnmatch on POSIX (normcase is the identity there): "*" matches  *)
(* any run of characters, "/" included, "?" one character, "[seq]" one     *)
(* character of seq, "[!seq]" one character not in seq; a "[" that is      *)
(* never closed is a literal.  Ranges ("a-z") are not modelled: no pattern *)
(* of ExcludeChoices holds a "-".                                          *)
(***************************************************************************)
RECURSIVE ScanClose(_, _)
\* The index of the first "]" of pat at or after j, Len(pat) + 1 when none.
ScanClose(pat, j) ==
    IF j > Len(pat) THEN j
    ELSE IF pat[j] = "]" THEN j
    ELSE ScanClose(pat, j + 1)

\* For a "[" at index i: the index of the "]" that closes the set, as
\* fnmatch.translate finds it (a leading "!" and a leading "]" are skipped).
CloseOf(pat, i) ==
    LET j1 == i + 1
        j2 == IF j1 <= Len(pat) /\ pat[j1] = "!" THEN j1 + 1 ELSE j1
        j3 == IF j2 <= Len(pat) /\ pat[j2] = "]" THEN j2 + 1 ELSE j2
    IN  ScanClose(pat, j3)

RECURSIVE MatchFrom(_, _, _, _)
\* Whether s[i..] matches pat[j..].
MatchFrom(s, i, pat, j) ==
    IF j > Len(pat) THEN i > Len(s)
    ELSE IF pat[j] = "*"
         THEN \E k \in i..(Len(s) + 1) : MatchFrom(s, k, pat, j + 1)
    ELSE IF pat[j] = "?"
         THEN i <= Len(s) /\ MatchFrom(s, i + 1, pat, j + 1)
    ELSE IF pat[j] = "[" /\ CloseOf(pat, j) <= Len(pat)
         THEN LET c     == CloseOf(pat, j)
                  neg   == pat[j + 1] = "!"
                  first == IF neg THEN j + 2 ELSE j + 1
                  inset == \E k \in first..(c - 1) : pat[k] = s[i]
              IN  /\ i <= Len(s)
                  /\ (IF neg THEN ~inset ELSE inset)
                  /\ MatchFrom(s, i + 1, pat, c + 1)
    ELSE i <= Len(s) /\ s[i] = pat[j] /\ MatchFrom(s, i + 1, pat, j + 1)

fnmatch(name, pat) == MatchFrom(name, 1, pat, 1)

\* any(ch in pat for ch in "*?[]")
HasMeta(pat) == \E k \in 1..Len(pat) : pat[k] \in {"*", "?", "[", "]"}

(***************************************************************************)
(* Program constants.                                                      *)
(***************************************************************************)
DEFAULT_EXTS ==
    { <<".","p","y">>,
      <<".","p","y","i">>,
      <<".","j","s">>,
      <<".","j","s","x">>,
      <<".","t","s">>,
      <<".","t","s","x">>,
      <<".","m","j","s">>,
      <<".","c","j","s">>,
      <<".","j","a","v","a">>,
      <<".","k","t">>,
      <<".","k","t","s">>,
      <<".","s","c","a","l","a">>,
      <<".","g","o">>,
      <<".","r","s">>,
      <<".","c">>,
      <<".","c","c">>,
      <<".","c","p","p">>,
      <<".","h">>,
      <<".","h","p","p">>,
      <<".","s","h">>,
      <<".","b","a","s","h">>,
      <<".","z","s","h">>,
      <<".","j","s","o","n">>,
      <<".","y","a","m","l">>,
      <<".","y","m","l">>,
      <<".","t","o","m","l">>,
      <<".","i","n","i">>,
      <<".","c","f","g">>,
      <<".","c","o","n","f">>,
      <<".","m","d">>,
      <<".","r","s","t">>,
      <<".","t","x","t">>,
      <<".","a","d","o","c">>,
      <<".","s","q","l">>,
      <<".","p","r","o","t","o">>,
      <<".","g","r","a","p","h","q","l">> }

SKIP_FILENAMES ==
    { <<"p","a","c","k","a","g","e","-","l","o","c","k",".","j","s","o","n">>,
      <<"n","p","m","-","s","h","r","i","n","k","w","r","a","p",".","j","s","o","n">>,
      <<"y","a","r","n",".","l","o","c","k">>,
      <<"p","n","p","m","-","l","o","c","k",".","y","a","m","l">>,
      <<"p","n","p","m","-","l","o","c","k",".","y","m","l">>,
      <<"d","e","n","o",".","l","o","c","k">>,
      <<"b","u","n",".","l","o","c","k","b">>,
      <<"b","u","n",".","l","o","c","k">>,
      <<"P","i","p","f","i","l","e",".","l","o","c","k">>,
      <<"p","o","e","t","r","y",".","l","o","c","k">>,
      <<"u","v",".","l","o","c","k">>,
      <<"C","a","r","g","o",".","l","o","c","k">>,
      <<"G","e","m","f","i","l","e",".","l","o","c","k">>,
      <<"c","o","m","p","o","s","e","r",".","l","o","c","k">>,
      <<"g","o",".","s","u","m">>,
      <<"g","o",".","w","o","r","k",".","s","u","m">> }

PRUNE_DIRS ==
    { <<".","g","i","t">>,
      <<".","h","g">>,
      <<".","s","v","n">>,
      <<"n","o","d","e","_","m","o","d","u","l","e","s">>,
      <<".","v","e","n","v">>,
      <<"v","e","n","v">>,
      <<"_","_","p","y","c","a","c","h","e","_","_">>,
      <<".","p","y","t","e","s","t","_","c","a","c","h","e">>,
      <<".","m","y","p","y","_","c","a","c","h","e">>,
      <<"d","i","s","t">>,
      <<"b","u","i","l","d">>,
      <<"t","a","r","g","e","t">>,
      <<".","g","r","a","d","l","e">>,
      <<".","i","d","e","a">>,
      <<".","v","s","c","o","d","e">> }

\* is_probably_binary(path, sniff_bytes=4096)
SniffBytes == 4096

\* ext or "<none>"
NoneExt == <<"<","n","o","n","e",">">>

(***************************************************************************)
(* The file system under the root.  acc says what the operating system     *)
(* answers: "ok"; "missing" (open and stat raise FileNotFoundError: a path *)
(* git still lists after the file was deleted); "unreadable" (open raises  *)
(* PermissionError, stat works); "denied" (open and stat raise an OSError  *)
(* that is not FileNotFoundError: a directory without search permission, a *)
(* symbolic link loop).  nul_at is the offset of the first NUL byte, -1    *)
(* when the file holds none.                                               *)
(***************************************************************************)
FileTable ==
    << [parts |-> << <<"a",".","p","y">> >>,
        size |-> 400, nul_at |-> -1, acc |-> "ok"],
       [parts |-> << <<"n",".","m","d">> >>,
        size |-> 5000, nul_at |-> 4500, acc |-> "ok"],
       [parts |-> << <<"y","a","r","n",".","l","o","c","k">> >>,
        size |-> 9, nul_at |-> -1, acc |-> "ok"],
       [parts |-> << <<"R","E","A","D","M","E">> >>,
        size |-> 400, nul_at |-> -1, acc |-> "ok"],
       [parts |-> << <<"u",".","T","X","T">> >>,
        size |-> 5, nul_at |-> -1, acc |-> "unreadable"],
       [parts |-> << <<"e",".","p","y">> >>,
        size |-> 0, nul_at |-> -1, acc |-> "ok"],
       [parts |-> << <<"x",".","p","y">> >>,
        size |-> 0, nul_at |-> -1, acc |-> "missing"],
       [parts |-> << <<".","h">>, <<"c",".","p","y">> >>,
        size |-> 0, nul_at |-> -1, acc |-> "denied"],
       [parts |-> << <<"d">>, <<"t","m","p",".","t","x","t">> >>,
        size |-> 3, nul_at |-> 1, acc |-> "ok"],
       [parts |-> << <<"n","o","d","e","_","m","o","d","u","l","e","s">>,
                     <<"m",".","j","s">> >>,
        size |-> 6, nul_at |-> -1, acc |-> "ok"] >>

\* A path is named by its index in FileTable.
Files == DOMAIN FileTable

\* p.relative_to(root).parts: every candidate is root / s, so relative_to
\* never raises ValueError.
RelParts(f) == FileTable[f].parts

\* p.name
Name(f) == RelParts(f)[Len(RelParts(f))]

\* open(path, "rb").read(sniff_bytes) raises OSError.
OpenFails(f) == FileTable[f].acc # "ok"

\* b"\x00" in chunk, for chunk the first sniff_bytes bytes of the file.
NulInChunk(f) ==
    LET n == IF FileTable[f].size < SniffBytes THEN FileTable[f].size
             ELSE SniffBytes
    IN  0 <= FileTable[f].nul_at /\ FileTable[f].nul_at < n

\* is_probably_binary: an unreadable file counts as binary.
is_probably_binary(f) == IF OpenFails(f) THEN TRUE ELSE NulInChunk(f)

(***************************************************************************)
(* iter_filestats.                                                         *)
(***************************************************************************)
\* any(part.startswith(".") for part in rel.parts)
IsHidden(f) == \E i \in 1..Len(RelParts(f)) : StartsWithDot(RelParts(f)[i])

\* PatternRejects with the relative path forgotten: only the file name is
\* tested.
PatternRejectsNameOnly(pat, f) ==
    IF HasMeta(pat)
    THEN fnmatch(Name(f), pat)
    ELSE Contains(Name(f), pat)

\* One pattern of exclude_globs against a path: the body of the for loop.
PatternRejects(pat, f) ==
    IF HasMeta(pat)
    THEN fnmatch(JoinPosix(RelParts(f)), pat) \/ fnmatch(Name(f), pat)
    ELSE Contains(Name(f), pat) \/ Contains(JoinPosix(RelParts(f)), pat)

\* The exclusion loop: skip is set by the first pattern that rejects.
Excluded(exclude_globs, f) ==
    \E i \in 1..Len(exclude_globs) : PatternRejects(exclude_globs[i], f)

\* ext = p.suffix.lower()
Ext(f) == Lower(Suffix(Name(f)))

\* exts and ext not in exts
ExtRejected(xs, f) == xs # {} /\ Ext(f) \notin xs

\* IterOne with the binary sniff moved in front of the extension check.
IterOneSniffFirst(f, xs, include_hidden, binary_policy, exclude_globs) ==
    LET none == <<>>
        rec  == [path |-> f, size |-> FileTable[f].size,
                 ext |-> IF Ext(f) = <<>> THEN NoneExt ELSE Ext(f)]
        sniff == IF binary_policy = "skip" THEN << <<"open", f>> >> ELSE <<>>
    IN  IF ~include_hidden /\ IsHidden(f)
        THEN [verdict |-> "skip", io |-> <<>>, rec |-> none]
        ELSE IF Name(f) \in SKIP_FILENAMES
        THEN [verdict |-> "skip", io |-> <<>>, rec |-> none]
        ELSE IF Excluded(exclude_globs, f)
        THEN [verdict |-> "skip", io |-> <<>>, rec |-> none]
        ELSE IF binary_policy = "skip" /\ is_probably_binary(f)
        THEN [verdict |-> "skip", io |-> sniff, rec |-> none]
        ELSE IF ExtRejected(xs, f)
        THEN [verdict |-> "skip", io |-> sniff, rec |-> none]
        ELSE IF FileTable[f].acc = "missing"
        THEN [verdict |-> "skip", io |-> sniff \o << <<"stat", f>> >>,
              rec |-> none]
        ELSE IF FileTable[f].acc = "denied"
        THEN [verdict |-> "raise", io |-> sniff \o << <<"stat", f>> >>,
              rec |-> none]
        ELSE IF FileTable[f].size <= 0
        THEN [verdict |-> "skip", io |-> sniff \o << <<"stat", f>> >>,
              rec |-> none]
        ELSE [verdict |-> "yield", io |-> sniff \o << <<"stat", f>> >>,
              rec |-> rec]

\* One iteration of the loop of iter_filestats on path f.  verdict is
\* "skip" (continue), "yield" or "raise" (p.stat() raised an OSError other
\* than FileNotFoundError, which nothing catches); io lists the system calls
\* made, in order.
IterOne(f, xs, include_hidden, binary_policy, exclude_globs) ==
    LET none == <<>>
        rec  == [path |-> f, size |-> FileTable[f].size,
                 ext |-> IF Ext(f) = <<>> THEN NoneExt ELSE Ext(f)]
        sniff == IF binary_policy = "skip" THEN << <<"open", f>> >> ELSE <<>>
    IN  IF ~include_hidden /\ IsHidden(f)
        THEN [verdict |-> "skip", io |-> <<>>, rec |-> none]
        ELSE IF Name(f) \in SKIP_FILENAMES
        THEN [verdict |-> "skip", io |-> <<>>, rec |-> none]
        ELSE IF Excluded(exclude_globs, f)
        THEN [verdict |-> "skip", io |-> <<>>, rec |-> none]
        ELSE IF ExtRejected(xs, f)
        THEN [verdict |-> "skip", io |-> <<>>, rec |-> none]
        ELSE IF binary_policy = "skip" /\ is_probably_binary(f)
        THEN [verdict |-> "skip", io |-> sniff, rec |-> none]
        ELSE IF FileTable[f].acc = "missing"
        THEN [verdict |-> "skip", io |-> sniff \o << <<"stat", f>> >>,
              rec |-> none]
        ELSE IF FileTable[f].acc = "denied"
        THEN [verdict |-> "raise", io |-> sniff \o << <<"stat", f>> >>,
              rec |-> none]
        ELSE IF FileTable[f].size <= 0
        THEN [verdict |-> "skip", io |-> sniff \o << <<"stat", f>> >>,
              rec |-> none]
        ELSE [verdict |-> "yield", io |-> sniff \o << <<"stat", f>> >>,
              rec |-> rec]

RECURSIVE IterFrom(_, _, _, _, _, _, _)
\* The loop of iter_filestats from index i on, acc holding what was yielded
\* and done so far.  An exception ends the loop.
IterFrom(ps, i, acc, xs, include_hidden, binary_policy, exclude_globs) ==
    IF i > Len(ps) THEN acc
    ELSE LET r == IterOne(ps[i], xs, include_hidden, binary_policy,
                          exclude_globs)
             nxt == [stats  |-> IF r.verdict = "yield"
                                THEN Append(acc.stats, r.rec)
                                ELSE acc.stats,
                     io     |-> acc.io \o r.io,
                     raised |-> r.verdict = "raise"]
         IN  IF nxt.raised THEN nxt
             ELSE IterFrom(ps, i + 1, nxt, xs, include_hidden,
                           binary_policy, exclude_globs)

\* list(iter_filestats(paths, exts, root, include_hidden, binary_policy,
\* exclude_globs)): the records yielded, the system calls made, and whether
\* the generator raised.
iter_filestats(ps, xs, include_hidden, binary_policy, exclude_globs) ==
    IterFrom(ps, 1, [stats |-> <<>>, io |-> <<>>, raised |-> FALSE],
             xs, include_hidden, binary_policy, exclude_globs)

(***************************************************************************)
(* File discovery.                                                         *)
(***************************************************************************)
\* All sequences over S of length at most n.
SeqsUpTo(S, n) == UNION {[1..k -> S] : k \in 0..n}

\* os.walk never descends into a directory whose name is in prune.
Pruned(f) ==
    \E i \in 1..(Len(RelParts(f)) - 1) : RelParts(f)[i] \in PRUNE_DIRS

\* walk_all_files(root): every file on disk under root outside the pruned
\* directories, the files of a directory before those of its
\* subdirectories (FileTable is in that order).  os.walk ignores the error
\* of listing a root that is missing or is not a directory, and yields
\* nothing.
walk_all_files(rk) ==
    IF rk # "dir" THEN <<>>
    ELSE SelectSeq([i \in 1..Len(FileTable) |-> i],
                   LAMBDA f : FileTable[f].acc # "missing" /\ ~Pruned(f))

\* What `git ls-files -z` can print: each path followed by a NUL, so that
\* out.split(b"\0") ends with an empty part, written 0 here.  Git lists a
\* path whose file was deleted, and lists an unmerged path once per stage.
GitOutputs == {s \o <<0>> : s \in SeqsUpTo(Files, MaxPaths)}

\* git_tracked_files(repo_root) on the parts of the output: the empty parts
\* are dropped, the others become repo_root / s.
git_tracked_files(parts) == SelectSeq(parts, LAMBDA p : p # 0)

(***************************************************************************)
(* estimate_tokens.  size_bytes / 4 is Python's true division: the         *)
(* quotient correctly rounded (ties to even) to a binary64 float, which    *)
(* int() then truncates.  TLC's integers are 32 bits wide, so a byte count *)
(* is held as three limbs of 18 bits, most significant first: 54 bits,     *)
(* one more than the float's mantissa.                                     *)
(***************************************************************************)
LimbBase == 2^18

\* The number n < 2^31 as limbs (the first limb counts units of 2^36).
Big(n) == <<0, n \div LimbBase, n % LimbBase>>

\* b + k for limbs b and 0 <= k < LimbBase.
BigAddSmall(b, k) ==
    LET s3 == b[3] + k
        s2 == b[2] + (s3 \div LimbBase)
        s1 == b[1] + (s2 \div LimbBase)
    IN  <<s1, s2 % LimbBase, s3 % LimbBase>>

\* The exact quotient and remainder of limbs b by 2 <= d <= 4.
BigDivMod(b, d) ==
    LET c1 == b[1]
        c2 == (c1 % d) * LimbBase + b[2]
        c3 == (c2 % d) * LimbBase + b[3]
    IN  [q |-> <<c1 \div d, c2 \div d, c3 \div d>>, r |-> c3 % d]

\* int(b / d) for b < 2^54: below 2^51 a float keeps two fraction bits or
\* more and int() drops them; in [2^51, 2^52) it keeps one; in [2^52, 2^53)
\* none.  (q[1] counts units of 2^36.)
TrueDivInt(b, d) ==
    LET dm == BigDivMod(b, d)
        q  == dm.q
        r  == dm.r
    IN  IF q[1] < 2^15 THEN q
        ELSE IF q[1] < 2^16
        THEN LET h   == (2 * r) \div d
                 rem == (2 * r) % d
                 up  == 2 * rem > d \/ (2 * rem = d /\ h % 2 = 1)
                 halves == h + (IF up THEN 1 ELSE 0)
             IN  BigAddSmall(q, halves \div 2)
        ELSE LET up == 2 * r > d \/ (2 * r = d /\ q[3] % 2 = 1)
             IN  BigAddSmall(q, IF up THEN 1 ELSE 0)

\* estimate_tokens(size_bytes) -> (low, high)
estimate_tokens(size_bytes) ==
    <<TrueDivInt(size_bytes, 4), TrueDivInt(size_bytes, 3)>>

(***************************************************************************)
(* Aggregation.                                                            *)
(***************************************************************************)
RECURSIVE SumSizes(_)
\* sum(s.size for s in records)
SumSizes(records) ==
    IF records = <<>> THEN 0
    ELSE Head(records).size + SumSizes(Tail(records))

RECURSIVE InsertDesc(_, _)
\* x put into a list sorted by non-increasing key, behind every element
\* whose key is at least its own.
InsertDesc(sorted, x) ==
    IF sorted = <<>> THEN <<x>>
    ELSE IF Head(sorted).key >= x.key
         THEN <<Head(sorted)>> \o InsertDesc(Tail(sorted), x)
         ELSE <<x>> \o sorted

RECURSIVE SortDescFrom(_, _, _)
SortDescFrom(items, i, acc) ==
    IF i > Len(items) THEN acc
    ELSE SortDescFrom(items, i + 1, InsertDesc(acc, items[i]))

\* sorted(items, key=..., reverse=True) on [key, val] pairs: stable, equal
\* keys keep the order they came in.
SortDesc(items) == SortDescFrom(items, 1, <<>>)

RECURSIVE GroupFrom(_, _, _)
\* by_ext[s.ext].append(s) for the records from index i on; groups is the
\* dict so far, as its items in insertion order.
GroupFrom(records, i, groups) ==
    IF i > Len(records) THEN groups
    ELSE LET s == records[i]
             has == \E g \in 1..Len(groups) : groups[g].ext = s.ext
             nxt == IF has
                    THEN [g \in 1..Len(groups) |->
                            IF groups[g].ext = s.ext
                            THEN [groups[g] EXCEPT !.items = Append(@, s)]
                            ELSE groups[g]]
                    ELSE Append(groups, [ext |-> s.ext, items |-> <<s>>])
         IN  GroupFrom(records, i + 1, nxt)

RECURSIVE GroupFromOverwrite(_, _, _)
GroupFromOverwrite(records, i, groups) ==
    IF i > Len(records) THEN groups
    ELSE LET s == records[i]
             has == \E g \in 1..Len(groups) : groups[g].ext = s.ext
             nxt == IF has
                    THEN [g \in 1..Len(groups) |->
                            IF groups[g].ext = s.ext
                            THEN [groups[g] EXCEPT !.items = <<s>>]
                            ELSE groups[g]]
                    ELSE Append(groups, [ext |-> s.ext, items |-> <<s>>])
         IN  GroupFromOverwrite(records, i + 1, nxt)

\* GroupByExt with by_ext[s.ext] = [s] in place of the append: a group
\* keeps only its last record.
GroupByExtOverwrite(records) == GroupFromOverwrite(records, 1, <<>>)

\* The defaultdict(list) filled by the loop over stats.
GroupByExt(records) == GroupFrom(records, 1, <<>>)

\* TopN with the slice [: args.top], the max(..., 0) forgotten: a negative
\* bound then counts from the end of the list.
TopNUnclamped(records, top) ==
    LET sorted == SortDesc([i \in 1..Len(records) |->
                              [key |-> records[i].size, val |-> records[i]]])
        k == IF top >= 0 THEN top ELSE Len(sorted) + top
        n == IF k < 0 THEN 0 ELSE IF k < Len(sorted) THEN k ELSE Len(sorted)
    IN  [i \in 1..n |-> sorted[i].val]

\* sorted(stats, key=lambda s: s.size, reverse=True)[: max(args.top, 0)]
TopN(records, top) ==
    LET sorted == SortDesc([i \in 1..Len(records) |->
                              [key |-> records[i].size, val |-> records[i]]])
        k == IF top > 0 THEN top ELSE 0
        n == IF k < Len(sorted) THEN k ELSE Len(sorted)
    IN  [i \in 1..n |-> sorted[i].val]

\* The table rows of the per-extension breakdown, in printing order.
ExtRows(groups) ==
    LET sorted == SortDesc([g \in 1..Len(groups) |->
                              [key |-> SumSizes(groups[g].items),
                               val |-> groups[g]]])
    IN  [i \in 1..Len(sorted) |->
           [ext   |-> sorted[i].val.ext,
            files |-> Len(sorted[i].val.items),
            bytes |-> sorted[i].key,
            tok   |-> estimate_tokens(Big(sorted[i].key))]]

(***************************************************************************)
(* The command line.                                                       *)
(***************************************************************************)
\* e.lower() if e.startswith(".") else "." + e.lower()
NormExt(e) == IF StartsWithDot(e) THEN Lower(e) ELSE <<".">> \o Lower(e)

\* The extension filter main builds from --no-ext-filter and --ext.
ComputeExts(no_ext_filter, ext) ==
    IF no_ext_filter THEN {}
    ELSE IF ext # <<>> THEN {NormExt(ext[i]) : i \in 1..Len(ext)}
    ELSE DEFAULT_EXTS

\* What --ext and --no-ext-filter are given: neither; --ext PY --ext .Md;
\* the same with --no-ext-filter.
ExtChoices ==
    { [ext |-> <<>>, no_ext_filter |-> FALSE],
      [ext |-> << <<"P","Y">>, <<".","M","d">> >>, no_ext_filter |-> FALSE],
      [ext |-> << <<"P","Y">>, <<".","M","d">> >>, no_ext_filter |-> TRUE] }

\* What --exclude is given: nothing; a glob; a plain string; a glob that
\* only matches the relative path together with a character set.
ExcludeChoices ==
    { <<>>,
      << <<"*",".","m","d">> >>,
      << <<"t","m","p">> >>,
      << <<"d","/","*">>, <<"[","a","b","]",".","p","y">> >> }

\* What --top is given (10 is the default).
TopChoices == {-1, 0, 1, 3, 10}

\* args before any field is read: the defaults of the parser.
DefaultArgs ==
    [all |-> FALSE, ext |-> <<>>, no_ext_filter |-> FALSE,
     include_hidden |-> FALSE, exclude |-> <<>>, binary |-> "skip",
     top |-> 10]

\* print(..., file=stream)
Line(stream, kind) == [stream |-> stream, kind |-> kind]

(***************************************************************************)
(* The run of main.                                                        *)
(***************************************************************************)
Init ==
    /\ pc = "start"
    /\ root_kind = "dir"
    /\ args = DefaultArgs
    /\ git_result = "unused"
    /\ paths = <<>>
    /\ exts = {}
    /\ stats = <<>>
    /\ events = <<>>
    /\ total_bytes = 0
    /\ total_files = 0
    /\ t_low = Big(0)
    /\ t_high = Big(0)
    /\ by_ext = <<>>
    /\ topn = <<>>
    /\ out = <<>>
    /\ exit_code = -1
    /\ est_in = Big(0)
    /\ est_out = <<>>

\* ap.parse_args(argv) accepts the command line; root = Path(args.path)
\* .resolve(), which does not look whether the path exists.
ParseArgs ==
    /\ pc = "start"
    /\ \E rk \in {"dir", "absent", "file"} : root_kind' = rk
    /\ pc' = "collect"
    /\ UNCHANGED <<args, git_result, paths, exts, stats, events, total_bytes,
                   total_files, t_low, t_high, by_ext, topn, out, exit_code,
                   est_in, est_out>>

\* ap.parse_args(argv) rejects the command line: usage on stderr, exit 2.
ParseError ==
    /\ pc = "start"
    /\ out' = Append(out, Line("stderr", "usage"))
    /\ exit_code' = 2
    /\ pc' = "exited"
    /\ UNCHANGED <<root_kind, args, git_result, paths, exts, stats, events,
                   total_bytes, total_files, t_low, t_high, by_ext, topn,
                   est_in, est_out>>

\* --all: paths = list(walk_all_files(root))
CollectAll ==
    /\ pc = "collect"
    /\ args' = [args EXCEPT !.all = TRUE]
    /\ paths' = walk_all_files(root_kind)
    /\ pc' = "filter"
    /\ UNCHANGED <<root_kind, git_result, exts, stats, events, total_bytes,
                   total_files, t_low, t_high, by_ext, topn, out, exit_code,
                   est_in, est_out>>

\* No --all and git lists the tracked files.
CollectTracked ==
    /\ pc = "collect"
    /\ root_kind = "dir"
    /\ \E parts \in GitOutputs : paths' = git_tracked_files(parts)
    /\ git_result' = "ok"
    /\ pc' = "filter"
    /\ UNCHANGED <<root_kind, args, exts, stats, events, total_bytes,
                   total_files, t_low, t_high, by_ext, topn, out, exit_code,
                   est_in, est_out>>

\* No --all and git is not installed (FileNotFoundError) or exits non-zero
\* (CalledProcessError: the root is no working copy, or no directory):
\* git_tracked_files raises RuntimeError, main warns and walks.
CollectFallback ==
    /\ pc = "collect"
    /\ \E g \in {"missing", "notrepo"} : git_result' = g
    /\ out' = out \o <<Line("stderr", "warning"), Line("stderr", "fallback")>>
    /\ paths' = walk_all_files(root_kind)
    /\ pc' = "filter"
    /\ UNCHANGED <<root_kind, args, exts, stats, events, total_bytes,
                   total_files, t_low, t_high, by_ext, topn, exit_code,
                   est_in, est_out>>

\* stats = list(iter_filestats(...)).  An exception of p.stat() leaves
\* main: the interpreter prints the traceback and exits with 1.
Filter ==
    /\ pc = "filter"
    /\ \E ec \in ExtChoices, ih \in BOOLEAN,
          x \in ExcludeChoices, b \in {"skip", "include"} :
          LET e  == ec.ext
              nf == ec.no_ext_filter
              xs == ComputeExts(nf, e)
              r  == iter_filestats(paths, xs, ih, b, x)
          IN  /\ args' = [args EXCEPT !.ext = e, !.no_ext_filter = nf,
                                      !.include_hidden = ih, !.exclude = x,
                                      !.binary = b]
              /\ exts' = xs
              /\ events' = r.io
              /\ IF r.raised
                 THEN /\ stats' = stats
                      /\ out' = Append(out, Line("stderr", "traceback"))
                      /\ exit_code' = 1
                      /\ pc' = "crashed"
                 ELSE /\ stats' = r.stats
                      /\ out' = out
                      /\ exit_code' = exit_code
                      /\ pc' = "aggregate"
    /\ UNCHANGED <<root_kind, git_result, paths, total_bytes, total_files,
                   t_low, t_high, by_ext, topn, est_in, est_out>>

\* The totals and the header lines, then the per-extension breakdown: the
\* grouping and its table (print_table prints the header row, the rule, and
\* a row for each group).
Aggregate ==
    /\ pc = "aggregate"
    /\ total_bytes' = SumSizes(stats)
    /\ total_files' = Len(stats)
    /\ t_low' = estimate_tokens(Big(SumSizes(stats)))[1]
    /\ t_high' = estimate_tokens(Big(SumSizes(stats)))[2]
    /\ by_ext' = GroupByExt(stats)
    /\ out' = out \o <<Line("stdout", "root"), Line("stdout", "files"),
                       Line("stdout", "bytes"), Line("stdout", "blank"),
                       Line("stdout", "by_ext"), Line("stdout", "header"),
                       Line("stdout", "rule")>>
                  \o [i \in 1..Len(ExtRows(GroupByExt(stats))) |->
                        Line("stdout", "ext_row")]
                  \o <<Line("stdout", "blank")>>
    /\ pc' = "largest"
    /\ UNCHANGED <<root_kind, args, git_result, paths, exts, stats, events,
                   topn, exit_code, est_in, est_out>>

\* The largest files, printed only when the list is not empty, then the
\* closing lines (the average and the spread are display only) and
\* return 0.
Largest ==
    /\ pc = "largest"
    /\ \E n \in TopChoices :
          /\ args' = [args EXCEPT !.top = n]
          /\ topn' = TopN(stats, n)
          /\ out' = (IF TopN(stats, n) = <<>> THEN out
                     ELSE out \o <<Line("stdout", "top"),
                                   Line("stdout", "header"),
                                   Line("stdout", "rule")>>
                              \o [i \in 1..Len(TopN(stats, n)) |->
                                    Line("stdout", "file_row")])
                    \o <<Line("stdout", "blank"), Line("stdout", "tokens")>>
    /\ exit_code' = 0
    /\ pc' = "done"
    /\ UNCHANGED <<root_kind, git_result, paths, exts, stats, events,
                   total_bytes, total_files, t_low, t_high, by_ext,
                   est_in, est_out>>

Next ==
    \/ ParseArgs
    \/ ParseError
    \/ CollectAll
    \/ CollectTracked
    \/ CollectFallback
    \/ Filter
    \/ Aggregate
    \/ Largest

Spec == Init /\ [][Next]_vars

(***************************************************************************)
(* estimate_tokens on its own, on byte counts up to 2^54.                  *)
(***************************************************************************)
\* k, 2^53 + k and 3 * 2^52 + k as limbs.
EstInputs ==
    {Big(k) : k \in 0..MaxOffset}
        \cup {<<2^17, 0, k>> : k \in 0..MaxOffset}
        \cup {<<2^17 + 2^16, 0, k>> : k \in 0..MaxOffset}

EstInit ==
    /\ pc = "est"
    /\ root_kind = "dir"
    /\ args = DefaultArgs
    /\ git_result = "unused"
    /\ paths = <<>>
    /\ exts = {}
    /\ stats = <<>>
    /\ events = <<>>
    /\ total_bytes = 0
    /\ total_files = 0
    /\ t_low = Big(0)
    /\ t_high = Big(0)
    /\ by_ext = <<>>
    /\ topn = <<>>
    /\ out = <<>>
    /\ exit_code = -1
    /\ est_in \in EstInputs
    /\ est_out = <<>>

\* est_out = estimate_tokens(est_in)
EstimateTokens ==
    /\ pc = "est"
    /\ est_out' = estimate_tokens(est_in)
    /\ pc' = "est_done"
    /\ UNCHANGED <<root_kind, args, git_result, paths, exts, stats, events,
                   total_bytes, total_files, t_low, t_high, by_ext, topn,
                   out, exit_code, est_in>>

EstNext == EstimateTokens

SpecEst == EstInit /\ [][EstNext]_vars

(***************************************************************************)
(* Properties.                                                             *)
(***************************************************************************)
Range(s) == {s[i] : i \in 1..Len(s)}

\* How many times x occurs in s.
Count(s, x) == Cardinality({i \in 1..Len(s) : s[i] = x})

\* a <= b on limbs.
BigLeq(a, b) ==
    \/ a[1] < b[1]
    \/ a[1] = b[1] /\ a[2] < b[2]
    \/ a[1] = b[1] /\ a[2] = b[2] /\ a[3] <= b[3]

RECURSIVE SumOver(_)
\* The sum of the sizes of a set of files.
SumOver(S) ==
    IF S = {} THEN 0
    ELSE LET f == CHOOSE x \in S : TRUE
         IN  FileTable[f].size + SumOver(S \ {f})

\* The totals have been computed.
Aggregated == pc \in {"largest", "done"}

\* floor(b / d) on limbs, by exact long division.
BigFloorDiv(b, d) ==
    LET c1 == b[1]
        c2 == (c1 % d) * LimbBase + b[2]
        c3 == (c2 % d) * LimbBase + b[3]
    IN  <<c1 \div d, c2 \div d, c3 \div d>>

\* C1: for every byte count b >= 0, estimate_tokens(b) is
\* (floor(b / 4), floor(b / 3)), so low <= high, and both are 0 for b = 0.
C1_EstimateIsFloor ==
    pc = "est_done" =>
        /\ est_out[1] = BigFloorDiv(est_in, 4)
        /\ est_out[2] = BigFloorDiv(est_in, 3)
        /\ BigLeq(est_out[1], est_out[2])
        /\ (est_in = Big(0) => est_out = <<Big(0), Big(0)>>)

\* The files among the candidates that pass every filter stage.
Survivors ==
    {f \in Range(paths) :
        IterOne(f, exts, args.include_hidden, args.binary,
                args.exclude).verdict = "yield"}

\* C2: total_bytes is the sum of the sizes of exactly the files that
\* survive every filter stage, total_files is their count, and no file has
\* more than one record, also when discovery lists a path more than once.
C2_TotalsOverSurvivors ==
    Aggregated =>
        /\ total_bytes = SumOver(Survivors)
        /\ total_files = Cardinality(Survivors)
        /\ \A i, j \in 1..Len(stats) :
              stats[i].path = stats[j].path => i = j

\* The suffix of a file's name in lower case.
LowerSuffix(f) ==
    [i \in 1..Len(Suffix(Name(f))) |-> LowerChar(Suffix(Name(f))[i])]

\* The key a record must be grouped under: its lowercase suffix, or the
\* sentinel.
KeyOf(f) == IF LowerSuffix(f) = <<>> THEN NoneExt ELSE LowerSuffix(f)

RECURSIVE SumGroups(_)
SumGroups(groups) ==
    IF groups = <<>> THEN 0
    ELSE SumSizes(Head(groups).items) + SumGroups(Tail(groups))

RECURSIVE CountInGroups(_, _)
\* How many times record x occurs in the groups altogether.
CountInGroups(groups, x) ==
    IF groups = <<>> THEN 0
    ELSE Count(Head(groups).items, x) + CountInGroups(Tail(groups), x)

\* C3: the per-extension grouping partitions the surviving records: every
\* record is in exactly one group, the one keyed by its lowercase suffix or
\* "<none>"; no group is empty; the group sums add up to total_bytes.
C3_ExtensionPartition ==
    Aggregated =>
        /\ \A i \in 1..Len(stats) :
              /\ CountInGroups(by_ext, stats[i]) = Count(stats, stats[i])
              /\ \A g \in 1..Len(by_ext) :
                    stats[i] \in Range(by_ext[g].items)
                        <=> by_ext[g].ext = KeyOf(stats[i].path)
              /\ \E g \in 1..Len(by_ext) :
                    by_ext[g].ext = KeyOf(stats[i].path)
        /\ \A g, h \in 1..Len(by_ext) :
              by_ext[g].ext = by_ext[h].ext => g = h
        /\ \A g \in 1..Len(by_ext) :
              /\ by_ext[g].items # <<>>
              /\ Range(by_ext[g].items) \subseteq Range(stats)
        /\ SumGroups(by_ext) = total_bytes

\* C3's case: four groups, one of them "<none>", one holding two files of
\* which one has an upper case suffix.
C3_Witness ==
    /\ pc = "done"
    /\ Len(by_ext) = 4
    /\ \E g \in 1..Len(by_ext) : by_ext[g].ext = NoneExt
    /\ \E g \in 1..Len(by_ext) :
          /\ by_ext[g].ext = <<".","t","x","t">>
          /\ Len(by_ext[g].items) = 2
          /\ \E k \in 1..2 : Suffix(Name(by_ext[g].items[k].path))
                                = <<".","T","X","T">>

\* C4: the largest-files list has min(N, total_files) records for N > 0
\* and none for N <= 0, is sorted by non-increasing size, holds only
\* surviving records, and every size in it is at least the size of every
\* surviving record left out of it.
C4_TopN ==
    pc = "done" =>
        /\ Len(topn) = (IF args.top <= 0 THEN 0
                        ELSE IF args.top < total_files THEN args.top
                        ELSE total_files)
        /\ \A i \in 1..(Len(topn) - 1) : topn[i].size >= topn[i + 1].size
        /\ \A i \in 1..Len(topn) :
              Count(topn, topn[i]) <= Count(stats, topn[i])
        /\ \A i \in 1..Len(stats) :
              Count(topn, stats[i]) < Count(stats, stats[i])
                  => \A k \in 1..Len(topn) : topn[k].size >= stats[i].size

\* C4's case: three files listed out of five, two of them of equal size.
C4_Witness ==
    /\ pc = "done"
    /\ args.top = 3
    /\ total_files = 5
    /\ Len(topn) = 3
    /\ topn[2].size = topn[3].size
    /\ topn[1].size > topn[2].size

\* Whether a file matches an exclusion pattern, as the claim words it.
MatchesPattern(pat, f) ==
    IF \E k \in 1..Len(pat) : pat[k] \in {"*", "?", "[", "]"}
    THEN \/ MatchFrom(Name(f), 1, pat, 1)
         \/ MatchFrom(JoinPosix(RelParts(f)), 1, pat, 1)
    ELSE \/ Contains(Name(f), pat)
         \/ Contains(JoinPosix(RelParts(f)), pat)

\* C5: no surviving record matches an exclusion pattern, whatever the
\* extension allow-list says.
C5_NoExcludedSurvivor ==
    \A i \in 1..Len(stats) :
        \A k \in 1..Len(args.exclude) :
            ~MatchesPattern(args.exclude[k], stats[i].path)

\* C5's case: "d/*" and "[ab].py" are excluded, the candidates a.py,
\* d/tmp.txt (which only its relative path excludes) and e.g. README are
\* listed, their extensions are allowed, and only the others survive.
C5_Witness ==
    /\ pc = "done"
    /\ Len(args.exclude) = 2
    /\ exts = {}
    /\ args.binary = "include"
    /\ \E f, g \in Range(paths) :
          /\ RelParts(f) = << <<"d">>, <<"t","m","p",".","t","x","t">> >>
          /\ RelParts(g) = << <<"a",".","p","y">> >>
    /\ stats # <<>>

\* What a run leaves as its surviving records: nothing when it aborted.
Surviving(r) == IF r.raised THEN <<>> ELSE r.stats

\* C6: with the same candidates and the same other options, the records
\* surviving without --include-hidden are exactly those surviving with it
\* whose relative path has no segment beginning with a dot.
C6_HiddenOnlyAdds ==
    pc \in {"aggregate", "largest", "done", "crashed"} =>
        LET this  == IF pc = "crashed" THEN <<>> ELSE stats
            other == Surviving(iter_filestats(paths, exts,
                                  ~args.include_hidden, args.binary,
                                  args.exclude))
            with    == IF args.include_hidden THEN this ELSE other
            without == IF args.include_hidden THEN other ELSE this
        IN  without = SelectSeq(with, LAMBDA s : ~IsHidden(s.path))

\* The first index of a line of the stream in out, Len(out) + 1 when none.
FirstOn(stream) ==
    IF \E i \in 1..Len(out) : out[i].stream = stream
    THEN CHOOSE i \in 1..Len(out) :
            /\ out[i].stream = stream
            /\ \A j \in 1..(i - 1) : out[j].stream # stream
    ELSE Len(out) + 1

\* The run is over.
Terminated == pc \in {"done", "crashed", "exited"}

\* C7: in tracked mode, when git is missing or the root is no working
\* copy, the run warns on stderr, walks the directory, prints the report
\* and exits with 0; the warning precedes every line of the report.
C7_FallbackSucceeds ==
    (Terminated /\ git_result \in {"missing", "notrepo"}) =>
        /\ exit_code = 0
        /\ paths = walk_all_files(root_kind)
        /\ \E i \in 1..Len(out) :
              out[i] = [stream |-> "stderr", kind |-> "warning"]
        /\ \E i \in 1..Len(out) :
              out[i] = [stream |-> "stdout", kind |-> "tokens"]
        /\ FirstOn("stderr") < FirstOn("stdout")

\* C8: when the root is missing or is not a directory, the run ends with
\* a non-zero exit code and a diagnostic on stderr, and nothing is written
\* to stdout.
C8_InvalidRootFails ==
    root_kind # "dir" =>
        /\ \A i \in 1..Len(out) : out[i].stream # "stdout"
        /\ Terminated =>
              /\ exit_code # 0
              /\ \E i \in 1..Len(out) : out[i].stream = "stderr"

\* C9: a file that cannot be read or stat'ed never aborts the run and
\* leaves no message, under either binary policy; every record has a size
\* above 0.
C9_PerFileErrorsNeverAbort ==
    /\ pc # "crashed"
    /\ \A i \in 1..Len(out) : out[i].kind # "traceback"
    /\ \A i \in 1..Len(stats) : stats[i].size > 0

\* The path passes the four checks that need no system call.
PassesCheapChecks(f) ==
    /\ args.include_hidden \/ ~IsHidden(f)
    /\ Name(f) \notin SKIP_FILENAMES
    /\ \A k \in 1..Len(args.exclude) : ~MatchesPattern(args.exclude[k], f)
    /\ exts = {} \/ LowerSuffix(f) \in exts

\* C10: a file is opened for the sniff only under binary policy "skip" and
\* after it passed the hidden, lockfile, exclusion and extension checks; it
\* is stat'ed only after it passed those and, under "skip", the sniff just
\* before; under "include" nothing is opened.
C10_FilterOrder ==
    \A k \in 1..Len(events) :
        LET op == events[k][1]
            f  == events[k][2]
        IN  /\ f \in Range(paths)
            /\ PassesCheapChecks(f)
            /\ op = "open" => args.binary = "skip"
            /\ op = "stat" =>
                  \/ args.binary = "include"
                  \/ /\ k > 1
                     /\ events[k - 1] = <<"open", f>>
                     /\ ~OpenFails(f)
                     /\ ~NulInChunk(f)

\* C10's case: under "skip", a candidate was sniffed and dropped, one was
\* sniffed and stat'ed, and one was dropped without any system call.
C10_Witness ==
    /\ pc = "done"
    /\ args.binary = "skip"
    /\ \E f \in Range(paths) :
          /\ <<"open", f>> \in Range(events)
          /\ <<"stat", f>> \notin Range(events)
    /\ \E f \in Range(paths) :
          /\ <<"open", f>> \in Range(events)
          /\ <<"stat", f>> \in Range(events)
    /\ \E f \in Range(paths) :
          /\ ~IsHidden(f)
          /\ <<"open", f>> \notin Range(events)
          /\ <<"stat", f>> \notin Range(events)

==========================================================================
